---- MODULE Spec2Model ----
(***************************************************************************)
(* voice_changer.py: the sample-domain effects, the preset chains and the  *)
(* __main__ batch run.                                                     *)
(*                                                                         *)
(* Numbers.  A sample is an integer number of 1/One (One is the amplitude  *)
(* 1.0).  Every other parameter (a gain, a time in seconds, a rate in Hz)  *)
(* is a number of thousandths.  The gains and times drawn for the calls    *)
(* that are computed are multiples of 0.25 and 0.5 and the samples are     *)
(* dyadic, so every product the code forms is exact in floating point and  *)
(* integer arithmetic on these units is the arithmetic the code performs.  *)
(***************************************************************************)
EXTENDS Integers, Sequences, FiniteSets, TLC

\* Longest input buffer drawn.
MaxLen == 3
\* Largest time parameter drawn, in half seconds.
MaxTime == 3
\* Largest initial state of the global random generator.
MaxSeed == 1

One == 125 * (4 ^ (2 * MaxLen))

Abs(x) == IF x < 0 THEN -x ELSE x

Min(a, b) == IF a <= b THEN a ELSE b

Max(a, b) == IF a >= b THEN a ELSE b

\* Python's int() of the real number num/den (den > 0): truncation toward zero.
int(num, den) == IF num >= 0 THEN num \div den ELSE -((-num) \div den)

\* num/den where the quotient is a whole number of units.
Exact(num, den) == int(num, den)

\* gain * x for a gain that is a number of quarters.
Gain(g, x) == Exact(Exact(g, 250) * x, 4)

\* Python's int(sr * seconds).
samples_in(sr, seconds) == int(sr * seconds, 1000)

\* a[i] of an ndarray of length n: Python accepts -n <= i < n and counts a
\* negative index from the end; anything else is an IndexError.
InRange(i, n) == -n <= i /\ i < n

Pos(i, n) == (IF i < 0 THEN i + n ELSE i) + 1

\* a[lo:hi] for 0 <= lo: the slice is clamped to the array.
Slice(a, lo, hi) == SubSeq(a, Min(lo, Len(a)) + 1, Min(hi, Len(a)))

Ok(s) == [ok |-> TRUE, out |-> s, err |-> "", rng |-> 0]

Raise(e) == [ok |-> FALSE, out |-> <<>>, err |-> e, rng |-> 0]

zeros_like(a) == [i \in 1..Len(a) |-> 0]

Reverse(a) == [i \in 1..Len(a) |-> a[Len(a) + 1 - i]]

(***************************************************************************)
(* np.sin.  Sin(p, q) is 1000 * sin(2*pi*p/q), q > 0, to about one part in *)
(* four hundred: the phase is reduced to a quarter wave and the quarter    *)
(* wave is the degree-7 Taylor polynomial of sin(pi*y/2).                  *)
(***************************************************************************)
QuarterSin(x) ==
    LET x2 == (x * x) \div 1000
        x3 == (x2 * x) \div 1000
        x5 == (x3 * x2) \div 1000
        x7 == (x5 * x2) \div 1000
    IN  Min(1000, (15708 * x - 6460 * x3 + 797 * x5 - 47 * x7 + 5000) \div 10000)

Sin(p, q) ==
    LET u == ((p % q) * 4000) \div q
        quadrant == u \div 1000
        r == u % 1000
    IN  CASE quadrant = 0 -> QuarterSin(r)
          [] quadrant = 1 -> QuarterSin(1000 - r)
          [] quadrant = 2 -> -QuarterSin(r)
          [] OTHER -> -QuarterSin(1000 - r)

(***************************************************************************)
(* apply_delay: lines 8-13.                                                *)
(***************************************************************************)
RECURSIVE delay_loop(_, _, _, _, _)
delay_loop(i, audio_data, delayed_audio, delay_samples, feedback) ==
    LET n == Len(audio_data) IN
    IF i >= n THEN Ok(delayed_audio)
    ELSE IF ~InRange(i, n) \/ ~InRange(i - delay_samples, n) THEN Raise("IndexError")
    ELSE delay_loop(i + 1, audio_data,
             [delayed_audio EXCEPT ![Pos(i, n)] =
                 audio_data[Pos(i, n)]
                   + Gain(feedback, delayed_audio[Pos(i - delay_samples, n)])],
             delay_samples, feedback)

RECURSIVE delay_loop_unscaled(_, _, _, _, _)
delay_loop_unscaled(i, audio_data, delayed_audio, delay_samples, feedback) ==
    LET n == Len(audio_data) IN
    IF i >= n THEN Ok(delayed_audio)
    ELSE IF ~InRange(i, n) \/ ~InRange(i - delay_samples, n) THEN Raise("IndexError")
    ELSE delay_loop_unscaled(i + 1, audio_data,
             [delayed_audio EXCEPT ![Pos(i, n)] =
                 audio_data[Pos(i, n)] + delayed_audio[Pos(i - delay_samples, n)]],
             delay_samples, feedback)

\* apply_delay with the repeat added at full gain (feedback forgotten).
apply_delay_unscaled(audio_data, sr, delay_time, feedback) ==
    LET delay_samples == samples_in(sr, delay_time)
    IN  delay_loop_unscaled(delay_samples, audio_data, zeros_like(audio_data),
                            delay_samples, feedback)

apply_delay(audio_data, sr, delay_time, feedback) ==
    LET delay_samples == samples_in(sr, delay_time)
    IN  delay_loop(delay_samples, audio_data, zeros_like(audio_data),
                   delay_samples, feedback)

(***************************************************************************)
(* apply_echo, lines 56-62, and apply_strong_echo, lines 183-189: the same *)
(* loop, reading the input.                                                *)
(***************************************************************************)
RECURSIVE echo_loop(_, _, _, _, _)
echo_loop(i, audio_data, echo_audio, delay_samples, decay) ==
    LET n == Len(audio_data) IN
    IF i >= n THEN Ok(echo_audio)
    ELSE IF ~InRange(i, n) \/ ~InRange(i - delay_samples, n) THEN Raise("IndexError")
    ELSE echo_loop(i + 1, audio_data,
             [echo_audio EXCEPT ![Pos(i, n)] =
                 @ + Gain(decay, audio_data[Pos(i - delay_samples, n)])],
             delay_samples, decay)

apply_echo(audio_data, sr, delay_factor, decay) ==
    LET delay_samples == samples_in(sr, delay_factor)
    IN  echo_loop(delay_samples, audio_data, audio_data, delay_samples, decay)

apply_strong_echo(audio_data, sr, delay_factor, decay) ==
    LET delay_samples == samples_in(sr, delay_factor)
    IN  echo_loop(delay_samples, audio_data, audio_data, delay_samples, decay)

(***************************************************************************)
(* apply_chorus: lines 16-24.  modulator[i] = sin(2*pi*rate*i/sr)*depth*sr *)
(* and delay_index = int(i - modulator[i]); the delay parameter is unused. *)
(***************************************************************************)
chorus_delay_index(i, sr, depth, rate) ==
    int(1000000 * i - Sin(Exact(rate, 50) * i, 20 * sr) * depth * sr, 1000000)

RECURSIVE chorus_loop(_, _, _, _, _, _)
chorus_loop(i, audio_data, chorus_audio, sr, depth, rate) ==
    LET n == Len(audio_data)
        delay_index == chorus_delay_index(i, sr, depth, rate)
    IN  IF i >= n THEN Ok(chorus_audio)
        ELSE chorus_loop(i + 1, audio_data,
                 IF 0 <= delay_index /\ delay_index < n
                 THEN [chorus_audio EXCEPT ![i + 1] = @ + audio_data[delay_index + 1]]
                 ELSE chorus_audio,
                 sr, depth, rate)

apply_chorus(audio_data, sr, depth, rate) ==
    chorus_loop(0, audio_data, audio_data, sr, depth, rate)

(***************************************************************************)
(* apply_flanger_voice: lines 224-233.                                     *)
(***************************************************************************)
flanger_max_delay(sr) == int(3 * sr, 1000)

\* A modulated delay that overshoots max_delay by one sample.
flanger_delay_past(i, sr) == flanger_max_delay(sr) + 1

\* int(modulation[i] * max_delay), modulation[i] = 0.5*(1 + sin(2*pi*0.25*i/sr))
flanger_delay(i, sr) ==
    int((1000 + Sin(i, 4 * sr)) * flanger_max_delay(sr), 2000)

RECURSIVE flanger_loop(_, _, _, _)
flanger_loop(i, audio_data, flanger_audio, sr) ==
    LET n == Len(audio_data)
        delay == flanger_delay(i, sr)
    IN  IF i >= n THEN Ok(flanger_audio)
        ELSE IF ~InRange(i, n) \/ ~InRange(i - delay, n) THEN Raise("IndexError")
        ELSE flanger_loop(i + 1, audio_data,
                 [flanger_audio EXCEPT ![Pos(i, n)] =
                     @ + Exact(audio_data[Pos(i - delay, n)], 2)],
                 sr)

apply_flanger_voice(audio_data, sr) ==
    flanger_loop(flanger_max_delay(sr), audio_data, audio_data, sr)

(***************************************************************************)
(* The indices the lookback loops subscript their arrays with, before any  *)
(* wrap of a negative index, for a buffer of n samples.  apply_delay,      *)
(* apply_echo and apply_strong_echo (lines 11-12, 60-61, 187-188) use i    *)
(* and i - delay_samples; apply_chorus (lines 20-23) uses i and, under its *)
(* guard, delay_index; apply_flanger_voice (lines 230-232) uses i and      *)
(* i - delay.                                                              *)
(***************************************************************************)
delay_reads(n, sr, delay_time) ==
    LET delay_samples == samples_in(sr, delay_time)
    IN  UNION {{i, i - delay_samples} : i \in delay_samples..(n - 1)}

chorus_reads(n, sr, depth, rate) ==
    (0..(n - 1)) \cup
    {chorus_delay_index(i, sr, depth, rate) :
        i \in {j \in 0..(n - 1) : 0 <= chorus_delay_index(j, sr, depth, rate)
                                   /\ chorus_delay_index(j, sr, depth, rate) < n}}

flanger_reads(n, sr) ==
    UNION {{i, i - flanger_delay(i, sr)} : i \in flanger_max_delay(sr)..(n - 1)}

lookback_reads(o, a, n, rate) ==
    CASE o \in {"apply_delay", "apply_echo", "apply_strong_echo"} ->
            delay_reads(n, rate, a.t)
      [] o = "apply_chorus" -> chorus_reads(n, rate, a.t, a.rate)
      [] o = "apply_flanger_voice" -> flanger_reads(n, rate)
      [] OTHER -> {}

(***************************************************************************)
(* apply_stuttering_voice: lines 236-243.  range(0, n, 0) is a ValueError; *)
(* a negative step makes the range empty.                                  *)
(***************************************************************************)
RECURSIVE stutter_loop(_, _, _, _)
stutter_loop(i, audio_data, stuttering_voice, segment_length) ==
    IF i >= Len(audio_data) THEN stuttering_voice
    ELSE stutter_loop(i + segment_length, audio_data,
             stuttering_voice
               \o Slice(audio_data, i, i + segment_length)
               \o Slice(audio_data, i, i + int(segment_length, 2)),
             segment_length)

RECURSIVE stutter_loop_whole(_, _, _, _)
stutter_loop_whole(i, audio_data, stuttering_voice, segment_length) ==
    IF i >= Len(audio_data) THEN stuttering_voice
    ELSE stutter_loop_whole(i + segment_length, audio_data,
             stuttering_voice
               \o Slice(audio_data, i, i + segment_length)
               \o Slice(audio_data, i, i + int(segment_length + 1, 2)),
             segment_length)

\* apply_stuttering_voice with the repeated half rounded up.
apply_stuttering_voice_half_up(audio_data, sr, stutter_factor) ==
    LET segment_length == samples_in(sr, stutter_factor)
    IN  IF segment_length = 0 THEN Raise("ValueError")
        ELSE IF segment_length < 0 THEN Ok(<<>>)
        ELSE Ok(stutter_loop_whole(0, audio_data, <<>>, segment_length))

apply_stuttering_voice(audio_data, sr, stutter_factor) ==
    LET segment_length == samples_in(sr, stutter_factor)
    IN  IF segment_length = 0 THEN Raise("ValueError")
        ELSE IF segment_length < 0 THEN Ok(<<>>)
        ELSE Ok(stutter_loop(0, audio_data, <<>>, segment_length))

(***************************************************************************)
(* apply_distorted_voice: lines 135-138.                                   *)
(***************************************************************************)
clip(x, lo, hi) == IF x < lo THEN lo ELSE IF x > hi THEN hi ELSE x

apply_distorted_voice(audio_data) ==
    Ok([i \in 1..Len(audio_data) |-> clip(audio_data[i] * 10, -One, One)])

(***************************************************************************)
(* np.random: one global generator.  Its state is hidden from the callers; *)
(* each normal draw advances it.  The generator is a 16-state congruential *)
(* one and a standard normal draw is one of -2..2.                         *)
(***************************************************************************)
rng_next(g) == (5 * g + 3) % 16

rng_draw(g) == (g % 5) - 2

RECURSIVE rng_steps(_, _)
rng_steps(g, n) == IF n = 0 THEN g ELSE rng_steps(rng_next(g), n - 1)

\* The state n draws after g (the generator returns to g every 16 draws).
rng_after(g, n) == rng_steps(g, n % 16)

\* np.random.normal(size=n) from state g: the n draws, in order.
normal(g, n) == [i \in 1..n |-> rng_draw(rng_after(g, i))]

(***************************************************************************)
(* apply_whisper_voice: lines 164-169; apply_digital_glitch_voice: lines   *)
(* 312-316.  Both read the global generator and leave it advanced.         *)
(***************************************************************************)
apply_whisper_voice(audio_data, g) ==
    LET noise == normal(g, Len(audio_data))
    IN  [Ok([i \in 1..Len(audio_data) |->
                Exact(audio_data[i], 5) + Exact(2 * One, 100) * noise[i]])
         EXCEPT !.rng = rng_after(g, Len(audio_data))]

apply_digital_glitch_voice(audio_data, sr, g) ==
    LET noise == normal(g, Len(audio_data))
    IN  [Ok([i \in 1..Len(audio_data) |->
                audio_data[i] + Exact(5 * One, 100) * noise[i]])
         EXCEPT !.rng = rng_after(g, Len(audio_data))]

(***************************************************************************)
(* The fade of apply_girl_voice, lines 80-84, on the array girl_voice that *)
(* time_stretch returned.  x[:k] *= w and x[-k:] *= w raise ValueError     *)
(* unless w has the slice's length or length 1; x[-0:] is all of x.        *)
(***************************************************************************)
fade_length(sr) == int(3 * sr, 100)

\* np.linspace(0, 1, n)[k] * x and np.linspace(1, 0, n)[k] * x, k from 0.
fade_in(x, k, n) == IF n = 1 THEN 0 ELSE Exact(x * k, n - 1)

fade_out(x, k, n) == IF n = 1 THEN x ELSE Exact(x * (n - 1 - k), n - 1)

broadcasts(slice_len, operand_len) == operand_len = slice_len \/ operand_len = 1

girl_voice_fade(girl_voice, sr) ==
    LET n == Len(girl_voice)
        fl == fade_length(sr)
        head == Min(fl, n)
        tail == IF fl = 0 THEN n ELSE Min(fl, n)
        faded_in == [i \in 1..n |->
                        IF i <= head THEN fade_in(girl_voice[i], i - 1, fl)
                        ELSE girl_voice[i]]
        faded == [i \in 1..n |->
                     IF i > n - tail THEN fade_out(faded_in[i], i - 1 - (n - tail), fl)
                     ELSE faded_in[i]]
    IN  IF ~broadcasts(head, fl) THEN Raise("ValueError")
        ELSE IF ~broadcasts(tail, fl) THEN Raise("ValueError")
        ELSE Ok(faded)

(***************************************************************************)
(* Arrays.  heap[b] is the storage of the b-th ndarray allocated; an array *)
(* value is a reference to a storage, read forward or (a [::-1] view)      *)
(* backward.  Two references with the same base share their samples.       *)
(***************************************************************************)
NoRef == [base |-> 0, rev |-> FALSE]

View(h, r) == IF r.rev THEN Reverse(h[r.base]) ELSE h[r.base]

Store(h, r, s) == [h EXCEPT ![r.base] = IF r.rev THEN Reverse(s) ELSE s]

Returned(h, r, g) == [heap |-> h, ret |-> r, ok |-> TRUE, err |-> "", rng |-> g]

Raised(h, e, g) == [heap |-> h, ret |-> NoRef, ok |-> FALSE, err |-> e, rng |-> g]

\* A function that builds its result in an array of its own.
Fresh(h, res, g) ==
    IF res.ok
    THEN Returned(Append(h, res.out), [base |-> Len(h) + 1, rev |-> FALSE], g)
    ELSE Raised(h, res.err, g)

\* increase_volume, lines 44-47: audio_data *= volume_factor works in the
\* caller's array, and that array is what is returned.
increase_volume(h, audio_data, volume_factor) ==
    Store(h, audio_data,
          [i \in 1..Len(View(h, audio_data)) |-> Gain(volume_factor, View(h, audio_data)[i])])

\* apply_reversed_voice with the slice step forgotten.
apply_reversed_voice_forward(audio_data) == audio_data

\* apply_reversed_voice, lines 95-98: audio_data[::-1] is a view.
apply_reversed_voice(audio_data) == [audio_data EXCEPT !.rev = ~@]

(***************************************************************************)
(* State.                                                                  *)
(*   file, sr     what load_audio returned: the decoded samples, the rate  *)
(*   heap         the arrays allocated so far                              *)
(*   audio_data   the caller's input array                                 *)
(*   rng          the state of np.random's global generator                *)
(* A caller of the library (one call, then the same call once more):       *)
(*   op, args     the function called last and its parameters              *)
(*   arg          the array passed to it                                   *)
(*   ret, prev    the array it returned, the array the call before it did  *)
(*   status       "idle", "returned" or "raised"                           *)
(*   calls        the number of calls made                                 *)
(* The __main__ run:                                                       *)
(*   pc           the line about to run                                    *)
(*   run          "running", "done" or "aborted"                           *)
(*   results      the variables assigned so far                            *)
(*   saved        the results written to results/                          *)
(*   failed       the call whose exception ended the run                   *)
(***************************************************************************)
VARIABLES file, sr, heap, audio_data, rng,
          op, args, arg, ret, prev, status, calls,
          pc, run, results, saved, failed

vars == <<file, sr, heap, audio_data, rng,
          op, args, arg, ret, prev, status, calls,
          pc, run, results, saved, failed>>

common == <<file, sr, audio_data>>

caller == <<op, args, arg, ret, prev, status, calls>>

main == <<pc, run, results, saved, failed>>

Samples == {-One, 0, One \div 2}

RECURSIVE SeqsOver(_, _)
SeqsOver(S, n) ==
    IF n = 0 THEN {<<>>}
    ELSE LET shorter == SeqsOver(S, n - 1)
         IN  shorter \cup {Append(b, x) : b \in {c \in shorter : Len(c) = n - 1}, x \in S}

Buffers == SeqsOver(Samples, MaxLen)

SampleRates == {1, 2, 10, 67, 100, 667}

Times == {500 * k : k \in -1..MaxTime}

Gains == {-750, 250, 500, 1000, 1250}

Rates == {1200, 1300}

NoArgs == [t |-> 0, g |-> 0, rate |-> 0, stretched |-> <<>>]

Loaded(buffers, rates) ==
    /\ file \in buffers
    /\ sr \in rates
    /\ heap = <<file>>
    /\ audio_data = [base |-> 1, rev |-> FALSE]
    /\ rng \in 0..MaxSeed
    /\ op = "" /\ args = NoArgs /\ arg = NoRef /\ ret = NoRef /\ prev = NoRef
    /\ status = "idle" /\ calls = 0
    /\ pc = 402 /\ run = "running" /\ results = <<>> /\ saved = {} /\ failed = ""

Init == Loaded(Buffers, SampleRates)

(***************************************************************************)
(* One call of a library function on the array r, from heap h and          *)
(* generator state g: what it returns or raises, and the heap and the      *)
(* generator it leaves.                                                    *)
(***************************************************************************)
Invoke(o, a, r, h, g) ==
    LET x == View(h, r) IN
    CASE o = "increase_volume" -> Returned(increase_volume(h, r, a.g), r, g)
      [] o = "apply_reversed_voice" -> Returned(h, apply_reversed_voice(r), g)
      [] o = "apply_echo" -> Fresh(h, apply_echo(x, sr, a.t, a.g), g)
      [] o = "apply_strong_echo" -> Fresh(h, apply_strong_echo(x, sr, a.t, a.g), g)
      [] o = "apply_delay" -> Fresh(h, apply_delay(x, sr, a.t, a.g), g)
      [] o = "apply_chorus" -> Fresh(h, apply_chorus(x, sr, a.t, a.rate), g)
      [] o = "apply_flanger_voice" -> Fresh(h, apply_flanger_voice(x, sr), g)
      [] o = "apply_stuttering_voice" -> Fresh(h, apply_stuttering_voice(x, sr, a.t), g)
      [] o = "apply_distorted_voice" -> Fresh(h, apply_distorted_voice(x), g)
      [] o = "apply_whisper_voice" ->
            Fresh(h, apply_whisper_voice(x, g), apply_whisper_voice(x, g).rng)
      [] o = "apply_digital_glitch_voice" ->
            Fresh(h, apply_digital_glitch_voice(x, sr, g),
                  apply_digital_glitch_voice(x, sr, g).rng)
      [] o = "apply_girl_voice" -> Fresh(h, girl_voice_fade(a.stretched, sr), g)

Call(o, a, r) ==
    LET res == Invoke(o, a, r, heap, rng) IN
    /\ op' = o /\ args' = a /\ arg' = r
    /\ heap' = res.heap
    /\ rng' = res.rng
    /\ prev' = ret
    /\ ret' = res.ret
    /\ status' = IF res.ok THEN "returned" ELSE "raised"
    /\ calls' = calls + 1
    /\ UNCHANGED <<common, main>>

Call_increase_volume ==
    /\ calls = 0
    /\ \E v \in Gains : Call("increase_volume", [NoArgs EXCEPT !.g = v], audio_data)

Call_apply_reversed_voice ==
    /\ calls = 0
    /\ Call("apply_reversed_voice", NoArgs, audio_data)

Call_apply_echo ==
    /\ calls = 0
    /\ \E t \in Times, g \in Gains :
          Call("apply_echo", [NoArgs EXCEPT !.t = t, !.g = g], audio_data)

Call_apply_strong_echo ==
    /\ calls = 0
    /\ \E t \in Times, g \in Gains :
          Call("apply_strong_echo", [NoArgs EXCEPT !.t = t, !.g = g], audio_data)

Call_apply_delay ==
    /\ calls = 0
    /\ \E t \in Times, g \in Gains :
          Call("apply_delay", [NoArgs EXCEPT !.t = t, !.g = g], audio_data)

Call_apply_chorus ==
    /\ calls = 0
    /\ \E t \in Times, r \in Rates :
          Call("apply_chorus", [NoArgs EXCEPT !.t = t, !.rate = r], audio_data)

Call_apply_flanger_voice ==
    /\ calls = 0
    /\ Call("apply_flanger_voice", NoArgs, audio_data)

Call_apply_stuttering_voice ==
    /\ calls = 0
    /\ \E t \in Times : Call("apply_stuttering_voice", [NoArgs EXCEPT !.t = t], audio_data)

Call_apply_distorted_voice ==
    /\ calls = 0
    /\ Call("apply_distorted_voice", NoArgs, audio_data)

Call_apply_whisper_voice ==
    /\ calls = 0
    /\ Call("apply_whisper_voice", NoArgs, audio_data)

Call_apply_digital_glitch_voice ==
    /\ calls = 0
    /\ Call("apply_digital_glitch_voice", NoArgs, audio_data)

\* pitch_shift and time_stretch are the library's: what they return is any
\* buffer; the fade then works in that array.
Call_apply_girl_voice ==
    /\ calls = 0
    /\ \E stretched \in Buffers :
          Call("apply_girl_voice", [NoArgs EXCEPT !.stretched = stretched], audio_data)

\* A function of the array alone, called once more on the same array.
CallAgain ==
    /\ calls = 1
    /\ args = NoArgs
    /\ Call(op, args, arg)

\* A function of the array alone, applied to what it returned.
CallOnResult ==
    /\ calls = 1
    /\ args = NoArgs
    /\ status = "returned"
    /\ Call(op, args, ret)

NextCaller ==
    \/ Call_increase_volume
    \/ Call_apply_reversed_voice
    \/ Call_apply_echo
    \/ Call_apply_strong_echo
    \/ Call_apply_delay
    \/ Call_apply_chorus
    \/ Call_apply_flanger_voice
    \/ Call_apply_stuttering_voice
    \/ Call_apply_distorted_voice
    \/ Call_apply_whisper_voice
    \/ Call_apply_digital_glitch_voice
    \/ Call_apply_girl_voice
    \/ CallAgain
    \/ CallOnResult

SpecCaller == Init /\ [][NextCaller]_vars

(***************************************************************************)
(* The stutter alone, on the same inputs and on the example of its         *)
(* description: a buffer of 100 samples at 10 samples a second.            *)
(***************************************************************************)
Example == [i \in 1..100 |-> IF i % 7 = 0 THEN One ELSE 0]

InitStutter == Init \/ Loaded({Example}, {10})

NextStutter == Call_apply_stuttering_voice

SpecStutter == InitStutter /\ [][NextStutter]_vars

(***************************************************************************)
(* The preset functions.  What pitch_shift, time_stretch, preemphasis,     *)
(* harmonic and sosfilt compute is the libraries' business; a preset's     *)
(* result is therefore kept as the samples it was called on and the chain  *)
(* of steps applied to them, in the order applied.  Each step takes the    *)
(* value the code passes to it.                                            *)
(***************************************************************************)
Traced(x) == [arg |-> x, chain |-> <<>>, ref |-> NoRef]

Step(v, fn, p) == [v EXCEPT !.chain = Append(@, [fn |-> fn, p |-> p])]

Collaborators ==
    {"librosa.effects.pitch_shift", "librosa.effects.time_stretch",
     "librosa.effects.preemphasis", "librosa.effects.harmonic",
     "scipy.signal.sosfilt"}

pitch_shift(v, semitone_shift) == Step(v, "librosa.effects.pitch_shift", <<semitone_shift>>)

change_speed(v, rate) == Step(v, "librosa.effects.time_stretch", <<rate>>)

np_clip(v, gain) == Step(v, "np.clip", <<gain, -1000, 1000>>)

bandpass(v, lowcut, highcut) == Step(v, "scipy.signal.sosfilt", <<10000, lowcut, highcut>>)

\* v * sin(2*pi*hz*t), t = np.arange(len(over)) / sr
ring_modulate(v, over, hz) == Step(v, "multiply by sine", <<hz, Len(over.chain)>>)

add_noise(v, std) == Step(v, "add np.random.normal", <<std>>)

apply_reverb(v, reverb_amount) ==
    np_clip(Step(v, "librosa.effects.preemphasis", <<>>), reverb_amount)

apply_girl_voice(v) ==
    LET shifted == Step(v, "librosa.effects.pitch_shift", <<12000>>)
        stretched == Step(shifted, "librosa.effects.time_stretch", <<1200>>)
    IN  Step(stretched, "fade in and out", <<30>>)

apply_child_voice(v) == pitch_shift(v, 7000)

apply_male_voice(v) == pitch_shift(v, -3000)

apply_demon_voice(v) == pitch_shift(v, -12000)

apply_telephone_voice(v) == bandpass(v, 300000, 3400000)

apply_chipmunk_voice(v) == pitch_shift(v, 15000)

apply_slow_motion_voice(v) ==
    LET slow_voice_pitch == pitch_shift(v, -5000)
    IN  change_speed(slow_voice_pitch, 500)

apply_underwater_voice(v) == bandpass(v, 300000, 600000)

apply_haunted_voice(v) ==
    LET haunted_voice == apply_reverb(v, 900)
    IN  Step(haunted_voice, "apply_echo", <<300, 800>>)

apply_monster_voice(v) ==
    LET monster_voice == pitch_shift(v, -9000)
    IN  Step(monster_voice, "apply_distorted_voice", <<>>)

apply_radio_voice(v) == add_noise(bandpass(v, 300000, 3000000), 10)

apply_megaphone_voice(v) == np_clip(bandpass(v, 500000, 5000000), 5000)

apply_space_voice(v) ==
    LET space_voice == apply_reverb(v, 900)
    IN  Step(space_voice, "apply_echo", <<500, 600>>)

apply_deep_voice(v) == np_clip(pitch_shift(v, -6000), 2000)

apply_broken_robot_voice(v) ==
    LET shifted == pitch_shift(v, -4000)
        clipped == np_clip(shifted, 1500)
    IN  change_speed(clipped, 800)

apply_alien_voice(v) == change_speed(pitch_shift(v, 12000), 700)

apply_slow_down_voice(v) == change_speed(v, 500)

apply_cyborg_voice(v) ==
    LET cyborg_voice == pitch_shift(v, -4000)
    IN  change_speed(cyborg_voice, 800)

apply_robot_voice_vocoder(v) ==
    LET robot_voice == Step(v, "librosa.effects.harmonic", <<>>)
    IN  pitch_shift(robot_voice, -3000)

apply_darth_vader_voice(v) == apply_reverb(pitch_shift(v, -7000), 700)

apply_ghostly_whisper_voice(v) == apply_reverb(pitch_shift(v, -5000), 950)

apply_cylon_voice(v) ==
    LET shifted == pitch_shift(v, -6000)
        stretched == change_speed(shifted, 800)
    IN  ring_modulate(stretched, stretched, 30000)

apply_evil_witch_voice(v) ==
    LET evil_witch_voice == pitch_shift(v, -3000)
    IN  Step(evil_witch_voice, "apply_echo", <<300, 600>>)

apply_cyberpunk_voice(v) ==
    LET cyberpunk_voice == np_clip(pitch_shift(v, 4000), 1500)
    IN  Step(cyberpunk_voice, "apply_echo", <<400, 500>>)

apply_mad_scientist_voice(v) ==
    LET mad_scientist_voice == np_clip(pitch_shift(v, 5000), 1300)
    IN  Step(mad_scientist_voice, "apply_echo", <<500, 600>>)

apply_cybernetic_voice(v) ==
    LET clipped == np_clip(pitch_shift(v, 3000), 1400)
    IN  ring_modulate(clipped, clipped, 20000)

apply_galactic_voice(v) ==
    LET shifted == pitch_shift(v, 3000)
        echoed == Step(shifted, "apply_echo", <<500, 500>>)
    IN  apply_reverb(echoed, 800)

apply_celestial_voice(v) ==
    LET celestial_voice == Step(v, "apply_chorus", <<500, 4, 1300>>)
    IN  apply_reverb(celestial_voice, 600)

apply_cosmic_voice(v) ==
    LET shifted == pitch_shift(v, 5000)
        echoed == Step(shifted, "apply_echo", <<300, 500>>)
    IN  apply_reverb(echoed, 800)

\* apply_mystical_voice with the chorus and the delay exchanged.
apply_mystical_voice_delay_first(v) ==
    LET shifted == pitch_shift(v, 3000)
        delayed == Step(shifted, "apply_delay", <<50, 300>>)
    IN  Step(delayed, "apply_chorus", <<20, 3, 1200>>)

apply_mystical_voice(v) ==
    LET shifted == pitch_shift(v, 3000)
        chorused == Step(shifted, "apply_chorus", <<20, 3, 1200>>)
    IN  Step(chorused, "apply_delay", <<50, 300>>)

apply_enchanted_voice(v) ==
    LET shifted == pitch_shift(v, 4000)
        chorused == Step(shifted, "apply_chorus", <<30, 4, 1300>>)
    IN  apply_reverb(chorused, 700)

apply_transcendent_voice(v) ==
    LET shifted == pitch_shift(v, 6000)
        reversed == Step(shifted, "apply_reversed_voice", <<>>)
    IN  Step(reversed, "apply_delay", <<100, 500>>)

apply_tunnel_voice(v) == apply_reverb(v, 950)

\* The call of the named function on the traced value v.
Effect(fn, v) ==
    CASE fn = "pitch_shift" -> pitch_shift(v, 2000)
      [] fn = "increase_volume" -> Step(v, "increase_volume", <<1500>>)
      [] fn = "apply_echo" -> Step(v, "apply_echo", <<500, 500>>)
      [] fn = "apply_reverb" -> apply_reverb(v, 500)
      [] fn = "apply_girl_voice" -> apply_girl_voice(v)
      [] fn = "apply_alien_voice" -> apply_alien_voice(v)
      [] fn = "apply_child_voice" -> apply_child_voice(v)
      [] fn = "apply_reversed_voice" -> Step(v, "apply_reversed_voice", <<>>)
      [] fn = "apply_male_voice" -> apply_male_voice(v)
      [] fn = "apply_demon_voice" -> apply_demon_voice(v)
      [] fn = "apply_telephone_voice" -> apply_telephone_voice(v)
      [] fn = "apply_chipmunk_voice" -> apply_chipmunk_voice(v)
      [] fn = "apply_slow_motion_voice" -> apply_slow_motion_voice(v)
      [] fn = "apply_distorted_voice" -> Step(v, "apply_distorted_voice", <<>>)
      [] fn = "apply_underwater_voice" -> apply_underwater_voice(v)
      [] fn = "apply_haunted_voice" -> apply_haunted_voice(v)
      [] fn = "apply_monster_voice" -> apply_monster_voice(v)
      [] fn = "apply_whisper_voice" -> Step(v, "apply_whisper_voice", <<>>)
      [] fn = "apply_radio_voice" -> apply_radio_voice(v)
      [] fn = "apply_strong_echo" -> Step(v, "apply_strong_echo", <<700, 700>>)
      [] fn = "apply_megaphone_voice" -> apply_megaphone_voice(v)
      [] fn = "apply_space_voice" -> apply_space_voice(v)
      [] fn = "apply_tremolo_voice" -> Step(v, "apply_tremolo_voice", <<>>)
      [] fn = "apply_flanger_voice" -> Step(v, "apply_flanger_voice", <<>>)
      [] fn = "apply_deep_voice" -> apply_deep_voice(v)
      [] fn = "apply_stuttering_voice" -> Step(v, "apply_stuttering_voice", <<100>>)
      [] fn = "apply_broken_robot_voice" -> apply_broken_robot_voice(v)
      [] fn = "apply_slow_down_voice" -> apply_slow_down_voice(v)
      [] fn = "apply_cyborg_voice" -> apply_cyborg_voice(v)
      [] fn = "apply_robot_voice_vocoder" -> apply_robot_voice_vocoder(v)
      [] fn = "apply_darth_vader_voice" -> apply_darth_vader_voice(v)
      [] fn = "apply_ghostly_whisper_voice" -> apply_ghostly_whisper_voice(v)
      [] fn = "apply_cylon_voice" -> apply_cylon_voice(v)
      [] fn = "apply_evil_witch_voice" -> apply_evil_witch_voice(v)
      [] fn = "apply_digital_glitch_voice" -> Step(v, "apply_digital_glitch_voice", <<>>)
      [] fn = "apply_cyberpunk_voice" -> apply_cyberpunk_voice(v)
      [] fn = "apply_mad_scientist_voice" -> apply_mad_scientist_voice(v)
      [] fn = "apply_cybernetic_voice" -> apply_cybernetic_voice(v)
      [] fn = "apply_galactic_voice" -> apply_galactic_voice(v)
      [] fn = "apply_celestial_voice" -> apply_celestial_voice(v)
      [] fn = "apply_cosmic_voice" -> apply_cosmic_voice(v)
      [] fn = "apply_mystical_voice" -> apply_mystical_voice(v)
      [] fn = "apply_enchanted_voice" -> apply_enchanted_voice(v)
      [] fn = "apply_transcendent_voice" -> apply_transcendent_voice(v)
      [] fn = "apply_tunnel_voice" -> apply_tunnel_voice(v)

(***************************************************************************)
(* __main__, lines 397-493: the calls of lines 402-446 in order, each on   *)
(* audio_data, then the saves of lines 449-493.                            *)
(***************************************************************************)
Calls ==
    << <<"shifted_pitch", "pitch_shift">>,
       <<"louder", "increase_volume">>,
       <<"echoed", "apply_echo">>,
       <<"reverb", "apply_reverb">>,
       <<"girl_voice", "apply_girl_voice">>,
       <<"alien_voice", "apply_alien_voice">>,
       <<"child_voice", "apply_child_voice">>,
       <<"reversed_voice", "apply_reversed_voice">>,
       <<"male_voice", "apply_male_voice">>,
       <<"demon_voice", "apply_demon_voice">>,
       <<"telephone_voice", "apply_telephone_voice">>,
       <<"chipmunk_voice", "apply_chipmunk_voice">>,
       <<"slow_motion_voice", "apply_slow_motion_voice">>,
       <<"distorted_voice", "apply_distorted_voice">>,
       <<"underwater_voice", "apply_underwater_voice">>,
       <<"haunted_voice", "apply_haunted_voice">>,
       <<"monster_voice", "apply_monster_voice">>,
       <<"whisper_voice", "apply_whisper_voice">>,
       <<"radio_voice", "apply_radio_voice">>,
       <<"strong_echo_voice", "apply_strong_echo">>,
       <<"megaphone_voice", "apply_megaphone_voice">>,
       <<"space_voice", "apply_space_voice">>,
       <<"tremolo_voice", "apply_tremolo_voice">>,
       <<"flanger_voice", "apply_flanger_voice">>,
       <<"deep_voice", "apply_deep_voice">>,
       <<"stuttering_voice", "apply_stuttering_voice">>,
       <<"broken_robot_voice", "apply_broken_robot_voice">>,
       <<"slow_down_voice", "apply_slow_down_voice">>,
       <<"cyborg_voice", "apply_cyborg_voice">>,
       <<"robotic_voice", "apply_robot_voice_vocoder">>,
       <<"darth_vader_voice", "apply_darth_vader_voice">>,
       <<"ghostly_whisper_voice", "apply_ghostly_whisper_voice">>,
       <<"cylon_voice", "apply_cylon_voice">>,
       <<"evil_witch_voice", "apply_evil_witch_voice">>,
       <<"digital_glitch_voice", "apply_digital_glitch_voice">>,
       <<"cyberpunk_voice", "apply_cyberpunk_voice">>,
       <<"mad_scientist_voice", "apply_mad_scientist_voice">>,
       <<"cybernetic_voice", "apply_cybernetic_voice">>,
       <<"galactic_voice", "apply_galactic_voice">>,
       <<"celestial_voice", "apply_celestial_voice">>,
       <<"cosmic_voice", "apply_cosmic_voice">>,
       <<"mystical_voice", "apply_mystical_voice">>,
       <<"enchanted_voice", "apply_enchanted_voice">>,
       <<"transcendent_voice", "apply_transcendent_voice">>,
       <<"tunnel_voice", "apply_tunnel_voice">> >>

Saves ==
    <<"shifted_pitch", "louder", "echoed", "reverb", "girl_voice", "alien_voice",
      "robotic_voice", "child_voice", "reversed_voice", "male_voice", "demon_voice",
      "telephone_voice", "chipmunk_voice", "slow_motion_voice", "distorted_voice",
      "underwater_voice", "haunted_voice", "monster_voice", "whisper_voice",
      "radio_voice", "strong_echo_voice", "megaphone_voice", "space_voice",
      "tremolo_voice", "flanger_voice", "deep_voice", "stuttering_voice",
      "broken_robot_voice", "slow_down_voice", "cyborg_voice", "darth_vader_voice",
      "ghostly_whisper_voice", "cylon_voice", "evil_witch_voice",
      "digital_glitch_voice", "cyberpunk_voice", "mad_scientist_voice",
      "cybernetic_voice", "galactic_voice", "celestial_voice", "cosmic_voice",
      "mystical_voice", "enchanted_voice", "transcendent_voice", "tunnel_voice">>

FirstCall == 402

LastCall == FirstCall + Len(Calls) - 1

FirstSave == LastCall + 3

LastSave == FirstSave + Len(Saves) - 1

CallAt(line) == [var |-> Calls[line - FirstCall + 1][1], fn |-> Calls[line - FirstCall + 1][2]]

SaveAt(line) == Saves[line - FirstSave + 1]

ResultNames == {Saves[i] : i \in 1..Len(Saves)}

AtCall == run = "running" /\ pc \in FirstCall..LastCall

AtSave == run = "running" /\ pc \in FirstSave..LastSave

UsesCollaborator(fn) ==
    \E i \in 1..Len(Effect(fn, Traced(<<>>)).chain) :
        Effect(fn, Traced(<<>>)).chain[i].fn \in Collaborators

DrawsNoise(fn) ==
    fn \in {"apply_whisper_voice", "apply_radio_voice", "apply_digital_glitch_voice"}

\* The calls of __main__ whose own code raises on this input.
PrimitiveRaises(fn, x) ==
    CASE fn = "apply_echo" -> ~apply_echo(x, sr, 500, 500).ok
      [] fn = "apply_strong_echo" -> ~apply_strong_echo(x, sr, 500, 500).ok
      [] fn = "apply_flanger_voice" -> ~apply_flanger_voice(x, sr).ok
      [] fn = "apply_stuttering_voice" -> ~apply_stuttering_voice(x, sr, 100).ok
      [] fn = "apply_girl_voice" -> \E stretched \in Buffers : ~girl_voice_fade(stretched, sr).ok
      [] OTHER -> FALSE

\* The call returns; what is assigned is the function's result.  louder is
\* audio_data itself, scaled in place; reversed_voice is a view of it.
CallEffect ==
    LET c == CallAt(pc)
        x == View(heap, audio_data)
        v == Effect(c.fn, Traced(x))
    IN  /\ AtCall
        /\ c.fn = "apply_girl_voice" \/ ~PrimitiveRaises(c.fn, x)
        /\ c.fn = "apply_girl_voice" => \E stretched \in Buffers : girl_voice_fade(stretched, sr).ok
        /\ heap' = IF c.fn = "increase_volume" THEN increase_volume(heap, audio_data, 1500)
                   ELSE heap
        /\ rng' = IF DrawsNoise(c.fn) THEN rng_after(rng, Len(x)) ELSE rng
        /\ results' = results @@ (c.var :>
              CASE c.fn = "increase_volume" -> [v EXCEPT !.ref = audio_data]
                [] c.fn = "apply_reversed_voice" ->
                      [v EXCEPT !.ref = apply_reversed_voice(audio_data)]
                [] OTHER -> v)
        /\ pc' = IF pc = LastCall THEN FirstSave ELSE pc + 1
        /\ UNCHANGED <<common, caller, run, saved, failed>>

\* A library call inside the function raises: nothing catches it, and the
\* script ends with the traceback.
CollaboratorRaises ==
    /\ AtCall
    /\ UsesCollaborator(CallAt(pc).fn)
    /\ run' = "aborted"
    /\ failed' = CallAt(pc).var
    /\ UNCHANGED <<common, caller, heap, rng, pc, results, saved>>

\* The function's own code raises: the same end.
EffectRaises ==
    /\ AtCall
    /\ PrimitiveRaises(CallAt(pc).fn, View(heap, audio_data))
    /\ run' = "aborted"
    /\ failed' = CallAt(pc).var
    /\ UNCHANGED <<common, caller, heap, rng, pc, results, saved>>

SaveAudio ==
    /\ AtSave
    /\ saved' = saved \cup {SaveAt(pc)}
    /\ pc' = pc + 1
    /\ run' = IF pc = LastSave THEN "done" ELSE run
    /\ UNCHANGED <<common, caller, heap, rng, results, failed>>

Next ==
    \/ CallEffect
    \/ CollaboratorRaises
    \/ EffectRaises
    \/ SaveAudio

Spec == Init /\ [][Next]_vars

(***************************************************************************)
(* Properties.                                                             *)
(***************************************************************************)
\* The samples of the array the last call returned.
Out == View(heap, ret)

\* The first call of the caller, on audio_data, has returned.
FirstReturned(o) == calls = 1 /\ op = o /\ status = "returned"

\* The largest magnitude in a buffer.
Peak(b) == IF b = <<>> THEN 0
           ELSE CHOOSE m \in {Abs(b[i]) : i \in 1..Len(b)} :
                    \A i \in 1..Len(b) : Abs(b[i]) <= m

\* C1: after a library function returns, the caller's input array holds the
\* samples it held before the call, and the array returned is another array:
\* it shares no storage with the input (an empty array has none to share).
C1_InputUntouched ==
    (calls = 1 /\ status = "returned") =>
        /\ View(heap, arg) = file
        /\ file # <<>> => ret.base # arg.base

\* C2: at every call of the batch run audio_data holds the loaded samples,
\* so every result assigned was computed from the loaded samples.
C2_SameInputThroughout ==
    /\ AtCall => View(heap, audio_data) = file
    /\ \A n \in DOMAIN results : results[n].arg = file

\* C3: a failing library call does not end the batch: when the run is over,
\* every result but the failed one has been produced and saved.
C3_FailureIsolated ==
    run # "running" => \A n \in ResultNames \ {failed} : n \in saved

\* C4: apply_delay gives output[i] = input[i] + feedback * output[i -
\* delay_samples] from delay_samples on and output[i] = input[i] before it
\* (stated for delay_samples >= 1: at 0 the recurrence would define
\* output[i] by itself).
C4_DelayRecurrence ==
    LET d == samples_in(sr, args.t) IN
    (FirstReturned("apply_delay") /\ d >= 1) =>
        /\ Len(Out) = Len(file)
        /\ \A i \in 1..Len(file) :
              IF i - 1 >= d
              THEN 1000 * (Out[i] - file[i]) = args.g * Out[i - d]
              ELSE Out[i] = file[i]

\* C5: with |feedback| < 1 and delay_samples >= 0, every output sample of
\* apply_delay is at most M / (1 - |feedback|) in magnitude, M the largest
\* input magnitude, whatever the length.
C5_DelayBounded ==
    LET d == samples_in(sr, args.t) IN
    (FirstReturned("apply_delay") /\ d >= 0 /\ Abs(args.g) < 1000) =>
        \A i \in 1..Len(Out) :
            Abs(Out[i]) * (4 - Exact(Abs(args.g), 250)) <= 4 * Peak(file)

\* C5's case: repeats have piled up above the input's peak.
C5_Witness ==
    /\ FirstReturned("apply_delay")
    /\ samples_in(sr, args.t) >= 1
    /\ Abs(args.g) < 1000
    /\ \E i \in 1..Len(Out) : Abs(Out[i]) > Peak(file)

\* C6: with segment length S >= 1 the stutter emits each segment in order
\* followed by its first S div 2 samples; the length is
\* q*(S + S div 2) + r + min(r, S div 2) for L = q*S + r; dropping the
\* repeats gives the input back; 100 samples at 10 Hz and factor 1.0 give 150.
C6_StutterShape ==
    LET S == samples_in(sr, args.t)
        L == Len(file)
        q == L \div S
        r == L % S
        h == S \div 2
        B == S + h
    IN  (calls = 1 /\ op = "apply_stuttering_voice" /\ S >= 1) =>
            /\ status = "returned"
            /\ Len(Out) = q * B + r + Min(r, h)
            /\ \A j \in 0..(Len(Out) - 1) :
                  LET k == j \div B
                      o == j % B
                      whole == IF k < q THEN S ELSE r
                  IN  Out[j + 1] = file[k * S + (IF o < whole THEN o ELSE o - whole) + 1]
            /\ \A i \in 0..(L - 1) : Out[(i \div S) * B + (i % S) + 1] = file[i + 1]
            /\ (L = 100 /\ sr = 10 /\ args.t = 1000) => Len(Out) = 150

\* C6's case: the example of 100 samples at 10 Hz has been stuttered.
C6_Witness ==
    /\ FirstReturned("apply_stuttering_voice")
    /\ Len(file) = 100 /\ sr = 10 /\ args.t = 1000
    /\ Len(Out) = 150

\* C7: no delay or segment parameter makes a primitive raise; a lookback
\* that leaves the buffer contributes nothing, so the input comes back.
C7_NeverRaises ==
    LET d == samples_in(sr, args.t) IN
    /\ (calls = 1 /\ op \in {"apply_delay", "apply_echo", "apply_strong_echo",
                             "apply_chorus", "apply_flanger_voice",
                             "apply_stuttering_voice", "apply_girl_voice"})
          => status = "returned"
    /\ (calls = 1 /\ op \in {"apply_delay", "apply_echo", "apply_strong_echo"}
          /\ status = "returned" /\ d >= Len(file))
          => Out = file

\* C8: apply_reversed_voice gives output[i] = input[length - 1 - i], of the
\* same length, and applied to its own result gives the input back.
C8_ReversalInvolution ==
    /\ (calls = 1 /\ op = "apply_reversed_voice") =>
          /\ status = "returned"
          /\ Len(Out) = Len(file)
          /\ \A i \in 0..(Len(file) - 1) : Out[i + 1] = file[Len(file) - 1 - i + 1]
    /\ (calls = 2 /\ op = "apply_reversed_voice" /\ arg = prev) =>
          /\ status = "returned"
          /\ Out = file

\* C8's case: a buffer that is not its own reverse, reversed twice.
C8_Witness ==
    /\ calls = 2 /\ op = "apply_reversed_voice" /\ arg = prev
    /\ file # Reverse(file)
    /\ View(heap, prev) # file

\* C9: two calls of a noise-adding function on the same input with the same
\* arguments return identical buffers.
C9_NoiseReproducible ==
    (calls = 2 /\ op \in {"apply_whisper_voice", "apply_digital_glitch_voice"}
       /\ arg = audio_data)
        => View(heap, ret) = View(heap, prev)

\* The chains of the five presets as listed: Reverb is the pre-emphasis and
\* the scaled clamp.
Listed ==
    [haunted_voice |->
        << [fn |-> "librosa.effects.preemphasis", p |-> <<>>],
           [fn |-> "np.clip", p |-> <<900, -1000, 1000>>],
           [fn |-> "apply_echo", p |-> <<300, 800>>] >>,
     cyborg_voice |->
        << [fn |-> "librosa.effects.pitch_shift", p |-> <<-4000>>],
           [fn |-> "librosa.effects.time_stretch", p |-> <<800>>] >>,
     cylon_voice |->
        << [fn |-> "librosa.effects.pitch_shift", p |-> <<-6000>>],
           [fn |-> "librosa.effects.time_stretch", p |-> <<800>>],
           [fn |-> "multiply by sine", p |-> <<30000, 2>>] >>,
     mystical_voice |->
        << [fn |-> "librosa.effects.pitch_shift", p |-> <<3000>>],
           [fn |-> "apply_chorus", p |-> <<20, 3, 1200>>],
           [fn |-> "apply_delay", p |-> <<50, 300>>] >>,
     girl_voice |->
        << [fn |-> "librosa.effects.pitch_shift", p |-> <<12000>>],
           [fn |-> "librosa.effects.time_stretch", p |-> <<1200>>],
           [fn |-> "fade in and out", p |-> <<30>>] >>]

\* C10: haunted, cyborg, cylon, mystical and girl_voice each apply their
\* listed steps in the listed order, each to the previous step's result,
\* starting from the array they were called on.
C10_ListedOrder ==
    \A n \in DOMAIN results \cap DOMAIN Listed :
        /\ results[n].chain = Listed[n]
        /\ results[n].arg = View(heap, audio_data)

\* C10's case: the run has produced and saved all five.
C10_Witness ==
    /\ run = "done"
    /\ DOMAIN Listed \subseteq DOMAIN results
    /\ DOMAIN Listed \subseteq saved

Lookbacks == {"apply_delay", "apply_echo", "apply_strong_echo",
              "apply_chorus", "apply_flanger_voice"}

\* C11: in apply_echo, apply_strong_echo, apply_delay, apply_flanger_voice
\* and apply_chorus, for every buffer and every non-negative delay or depth,
\* the call returns and every index it subscripts an array with lies in
\* [0, length): none is negative (it would wrap to the end of the buffer)
\* and none reaches length.  In the flanger, 0 <= delay <= max_delay <= i
\* at every i of the loop.
C11_ReadsInside ==
    (calls = 1 /\ op \in Lookbacks /\ args.t >= 0) =>
        /\ status = "returned"
        /\ lookback_reads(op, args, Len(file), sr) \subseteq 0..(Len(file) - 1)
        /\ op = "apply_flanger_voice" =>
              \A i \in flanger_max_delay(sr)..(Len(file) - 1) :
                  /\ 0 <= flanger_delay(i, sr)
                  /\ flanger_delay(i, sr) <= flanger_max_delay(sr)
                  /\ flanger_max_delay(sr) <= i

\* C11's case: the flanger has returned after reading behind its position
\* (a modulated delay of at least one sample).
C11_Witness ==
    /\ calls = 1 /\ status = "returned"
    /\ op = "apply_flanger_voice"
    /\ \E i \in flanger_max_delay(sr)..(Len(file) - 1) :
          /\ flanger_delay(i, sr) >= 1
          /\ i - flanger_delay(i, sr) \in lookback_reads(op, args, Len(file), sr)

====
